---- MODULE Spec2Model ----
(***************************************************************************)
(* Model of the certificate generator (generadorDiplos): the slug          *)
(* normaliser and uniqueness resolver (utils.py), the record store         *)
(* (database.py), the asset upload (cloudinary_storage.py) and the         *)
(* generator (generator.py), run by request handlers that interleave at    *)
(* the granularity of one database transaction or one upload.              *)
(*                                                                         *)
(* Strings are sequences of characters; a character is a one-token string. *)
(* Python's None is the empty tuple and Optional[T] values are tuples of   *)
(* length at most one where a record is expected.                          *)
(***************************************************************************)
EXTENDS Integers, Sequences, FiniteSets, TLC

\* ------------------------------------------------------------------ bounds
NProcs == 2        \* request handlers that can be in flight together
MaxBatch == 3      \* participants in one generation batch
MaxOps == 3        \* participants and marcar_como_visto calls of one behaviour
MaxNombre == 3     \* characters of a name given to nombre_to_slug on its own
MaxFilas == 3      \* rows of the table that is listed page by page

\* ------------------------------------------------------------- characters
\* A character outside ASCII is a named token: "e_acute" is U+00E9,
\* "E_ACUTE" is U+00C9, "COMB_ACUTE" is U+0301, "CJK" is a CJK letter,
\* "DEG_C" is U+2103 (degree Celsius) and "DEGREE" is U+00B0.
Mayusculas ==
    <<"A", "B", "C", "D", "E", "F", "G", "H", "I", "J", "K", "L", "M",
      "N", "O", "P", "Q", "R", "S", "T", "U", "V", "W", "X", "Y", "Z">>
Minusculas ==
    <<"a", "b", "c", "d", "e", "f", "g", "h", "i", "j", "k", "l", "m",
      "n", "o", "p", "q", "r", "s", "t", "u", "v", "w", "x", "y", "z">>
AsciiLower == { Minusculas[i] : i \in 1..Len(Minusculas) }
AsciiDigit == {"0", "1", "2", "3", "4", "5", "6", "7", "8", "9"}
None == << >>

\* str.lower() on one character
Lower(c) ==
    IF \E i \in 1..Len(Mayusculas) : Mayusculas[i] = c
    THEN Minusculas[CHOOSE i \in 1..Len(Mayusculas) : Mayusculas[i] = c]
    ELSE IF c = "E_ACUTE" THEN "e_acute"
    ELSE c

\* unicodedata.normalize('NFKD', c) on one character
NFKD(c) ==
    CASE c = "e_acute" -> <<"e", "COMB_ACUTE">>
      [] c = "E_ACUTE" -> <<"E", "COMB_ACUTE">>
      [] c = "DEG_C" -> <<"DEGREE", "C">>
      [] OTHER -> <<c>>

\* what .encode('ascii', 'ignore') keeps
IsAscii(c) == c \notin {"e_acute", "E_ACUTE", "COMB_ACUTE", "CJK", "DEG_C", "DEGREE"}

\* the class [a-z0-9]
IsAlnum(c) == c \in AsciiLower \cup AsciiDigit

LowerStr(s) == [i \in 1..Len(s) |-> Lower(s[i])]
\* unicodedata.normalize('NFKD', s): the decompositions of the characters,
\* in order (the string is split in halves to keep the recursion shallow)
RECURSIVE Normalize(_)
Normalize(s) ==
    IF s = << >> THEN << >>
    ELSE IF Len(s) = 1 THEN NFKD(s[1])
    ELSE Normalize(SubSeq(s, 1, Len(s) \div 2))
            \o Normalize(SubSeq(s, Len(s) \div 2 + 1, Len(s)))
EncodeAscii(s) == SelectSeq(s, IsAscii)

\* re.sub(r'[^a-z0-9]+', '-', s): each maximal run of other characters
\* becomes one hyphen (the positions kept are those of the characters of
\* the class and of the last character of each run)
SubNonAlnum(s) ==
    LET kept == SelectSeq([i \in 1..Len(s) |-> i],
                          LAMBDA i : IsAlnum(s[i]) \/ i = Len(s) \/ IsAlnum(s[i + 1]))
    IN [j \in 1..Len(kept) |-> IF IsAlnum(s[kept[j]]) THEN s[kept[j]] ELSE "-"]

\* s.strip('-')
RECURSIVE LStrip(_)
LStrip(s) == IF s # << >> /\ Head(s) = "-" THEN LStrip(Tail(s)) ELSE s
RECURSIVE RStrip(_)
RStrip(s) ==
    IF s # << >> /\ s[Len(s)] = "-" THEN RStrip(SubSeq(s, 1, Len(s) - 1)) ELSE s
\* Mutant: lstrip('-') in place of strip('-')
Strip_soloIzquierda(s) == LStrip(s)
Strip(s) == RStrip(LStrip(s))

\* re.sub(r'-+', '-', s): of each run of hyphens the last one is kept
CollapseHyphens(s) ==
    LET kept == SelectSeq([i \in 1..Len(s) |-> i],
                          LAMBDA i : ~(s[i] = "-" /\ i < Len(s) /\ s[i + 1] = "-"))
    IN [j \in 1..Len(kept) |-> s[kept[j]]]

nombre_to_slug(nombre) ==
    CollapseHyphens(Strip(SubNonAlnum(EncodeAscii(Normalize(LowerStr(nombre))))))

\* str(n) for n >= 0, as f"{contador}" formats it
DigitChar(d) ==
    CASE d = 0 -> "0" [] d = 1 -> "1" [] d = 2 -> "2" [] d = 3 -> "3"
      [] d = 4 -> "4" [] d = 5 -> "5" [] d = 6 -> "6" [] d = 7 -> "7"
      [] d = 8 -> "8" [] d = 9 -> "9"
RECURSIVE IntToStr(_)
IntToStr(n) ==
    IF n < 10 THEN <<DigitChar(n)>> ELSE IntToStr(n \div 10) \o <<DigitChar(n % 10)>>

\* Mutant: the suffix skips a number (contador read after its increment)
SlugConSufijo_saltaNumero(base_slug, contador) ==
    base_slug \o <<"-">> \o IntToStr(contador + 1)

\* Mutant: the hyphen before the number is left out
SlugConSufijo_sinGuion(base_slug, contador) == base_slug \o IntToStr(contador)

\* Mutant: every candidate after the first gets the number 2 (contador is
\* never read again)
SlugConSufijo_siempreDos(base_slug, contador) == base_slug \o <<"-", "2">>

\* f"{base_slug}-{contador}"
SlugConSufijo(base_slug, contador) == base_slug \o <<"-">> \o IntToStr(contador)


\* ------------------------------------------------------------------ inputs
Procs == 1..NProcs

\* Display names the requests use: "A" normalises to a and "a 2" to a-2,
\* the second candidate of "A".
Nombres == { <<"A">>, <<"a", " ", "2">> }
Email == <<"e">>

\* Participant dicts of a batch; a missing key and an empty string are both
\* falsy for `not nombre or not email`.
Participantes ==
    { [nombre |-> n, email |-> Email] : n \in Nombres }
    \cup { [email |-> Email], [nombre |-> <<"A">>, email |-> << >>] }

\* dict.get(key)
Get(d, k) == IF k \in DOMAIN d THEN d[k] ELSE None

\* slugs the view requests ask for
SlugsVista == { <<"a">>, <<"b">> }

\* ------------------------------------------------------------------- state
VARIABLES
    certificados,  \* the certificados table: rows in insertion order
    nube,          \* the assets held by the storage service
    reloj,         \* the last value datetime.utcnow() returned
    storage,       \* the generator's cloudinary_storage: none, unconfigured, ok
    pc,            \* where each request handler stands
    loc,           \* each handler's local variables
    ret,           \* <<handler, function, argument, value>> of the return the
                   \* last step made, None when it made none
    items,         \* participants handed to generar_batch so far
    vistas,        \* marcar_como_visto calls started so far
    vistasOk,      \* per slug, the marcar_como_visto calls that returned True
    db,            \* app.py's db: "ok" (a Database) or "none" (its init failed)
    session,       \* the admin client's session cookie: logged_out or logged_in
    claveEnviada,  \* history: the client posted ADMIN_PASSWORD to the login
                   \* form and has not asked to log out since
    peticiones     \* HTTP requests received so far

web == <<db, session, claveEnviada, peticiones>>
vars ==
    <<certificados, nube, reloj, storage, pc, loc, ret, items, vistas, vistasOk,
      db, session, claveEnviada, peticiones>>

\* A handler with no call in progress. consultas (lookups the resolver made),
\* agregados (rows the handler's saves added) and entrada (the participants
\* generar_batch has read from its list so far) are history variables; no
\* step of the program reads them.
Idle ==
    [tipo |-> "none", i |-> 0, nombre |-> None, email |-> None,
     base_slug |-> None, slug |-> None, contador |-> 0, consultas |-> 0,
     subida |-> None, exitosos |-> 0, errores |-> 0, resultados |-> << >>,
     leido |-> None, agregados |-> 0, certificado |-> None,
     limite |-> 0, offset |-> 0, paginas |-> << >>, entrada |-> << >>]

\* The row and the asset an earlier run of the generator left for "A"
FilaInicial ==
    [id |-> 1, slug |-> <<"a">>, nombre |-> <<"A">>, email |-> Email,
     cloudinary_url |-> <<"https", "certificados", <<"a">>>>,
     cloudinary_public_id |-> <<"certificados", <<"a">>>>,
     fecha_generacion |-> 1, visto |-> 0, ultima_visita |-> None]
AssetInicial ==
    [public_id |-> FilaInicial.cloudinary_public_id,
     url |-> FilaInicial.cloudinary_url, nombre |-> FilaInicial.nombre]

\* The process starts on an empty database or on one an earlier run left
\* with the certificate of "A".
Init ==
    /\ \/ certificados = << >> /\ nube = {} /\ reloj = 0
       \/ certificados = <<FilaInicial>> /\ nube = {AssetInicial} /\ reloj = 1
    /\ storage \in {"none", "unconfigured", "ok"}
    /\ pc = [p \in Procs |-> "idle"]
    /\ loc = [p \in Procs |-> Idle]
    /\ ret = None
    /\ items = 0
    /\ vistas = 0
    /\ vistasOk = [s \in SlugsVista |-> 0]
    /\ db = "ok"
    /\ session = "logged_out"
    /\ claveEnviada = FALSE
    /\ peticiones = 0

\* ---------------------------------------------------------------- database
\* The rows a query by slug matches, in table order
FilasConSlug(slug) ==
    SelectSeq(certificados, LAMBDA c : c.slug = slug)

\* Certificado.to_dict (timestamps are kept as values, not formatted)
to_dict(c) ==
    [id |-> c.id, slug |-> c.slug, nombre |-> c.nombre, email |-> c.email,
     cloudinary_url |-> c.cloudinary_url,
     cloudinary_public_id |-> c.cloudinary_public_id,
     fecha_generacion |-> c.fecha_generacion, visto |-> c.visto,
     ultima_visita |-> c.ultima_visita]

\* Database.obtener_certificado: <<dict>> of the first match, or None
obtener_certificado(slug) ==
    IF FilasConSlug(slug) # << >> THEN <<to_dict(FilasConSlug(slug)[1])>> ELSE None

\* Mutant: the slug column is not declared unique
InsertAceptado_sinUnique(slug, nombre, email, cloudinary_url, cloudinary_public_id) ==
    /\ cloudinary_url # None
    /\ cloudinary_public_id # None

\* The constraints of the certificados table an INSERT must satisfy: slug
\* unique, and the nullable=False columns not NULL (nombre and email are
\* never None where the generator saves; an empty string is not NULL)
InsertAceptado(slug, nombre, email, cloudinary_url, cloudinary_public_id) ==
    /\ FilasConSlug(slug) = << >>
    /\ cloudinary_url # None
    /\ cloudinary_public_id # None

\* The row Certificado(...) + session.add + commit appends at time t
NuevaFila(slug, nombre, email, cloudinary_url, cloudinary_public_id, t) ==
    [id |-> Len(certificados) + 1, slug |-> slug, nombre |-> nombre,
     email |-> email, cloudinary_url |-> cloudinary_url,
     cloudinary_public_id |-> cloudinary_public_id,
     fecha_generacion |-> t, visto |-> 0, ultima_visita |-> None]

\* Mutant: a save on a slug in use replaces the row and answers True
guardar_certificado_reemplaza(slug, nombre, email, cloudinary_url, cloudinary_public_id, t) ==
    IF FilasConSlug(slug) = << >>
    THEN [tabla |-> Append(certificados,
                      NuevaFila(slug, nombre, email, cloudinary_url,
                                cloudinary_public_id, t)),
          ok |-> TRUE]
    ELSE [tabla |-> [k \in 1..Len(certificados) |->
                       IF certificados[k].slug = slug
                       THEN [NuevaFila(slug, nombre, email, cloudinary_url,
                                       cloudinary_public_id, t)
                               EXCEPT !.id = certificados[k].id]
                       ELSE certificados[k]],
          ok |-> TRUE]

\* Database.guardar_certificado: the table after the call and the value
\* returned (IntegrityError is rolled back and answered False)
guardar_certificado(slug, nombre, email, cloudinary_url, cloudinary_public_id, t) ==
    IF InsertAceptado(slug, nombre, email, cloudinary_url, cloudinary_public_id)
    THEN [tabla |-> Append(certificados,
                      NuevaFila(slug, nombre, email, cloudinary_url,
                                cloudinary_public_id, t)),
          ok |-> TRUE]
    ELSE [tabla |-> certificados, ok |-> FALSE]

\* ----------------------------------------------------------------- storage
\* CloudinaryStorage.upload_svg's result for public_id when the upload works
ResultadoSubida(public_id) ==
    [public_id |-> <<"certificados", public_id>>,
     url |-> <<"https", "certificados", public_id>>]

\* The storage after an upload with overwrite=True of an asset rendered
\* from nombre
NubeTrasSubida(public_id, nombre) ==
    { a \in nube : a.public_id # ResultadoSubida(public_id).public_id }
    \cup { [public_id |-> ResultadoSubida(public_id).public_id,
            url |-> ResultadoSubida(public_id).url, nombre |-> nombre] }

\* --------------------------------------------------------------- generator
\* The dict generar_certificado returns on success
ResultadoOk(l) ==
    [nombre |-> l.nombre, email |-> l.email, slug |-> l.slug,
     cloudinary_url |-> l.subida[1].url,
     cloudinary_public_id |-> l.subida[1].public_id,
     url |-> <<"/certificado/", l.slug>>, success |-> TRUE]

\* The dict generar_certificado returns from its except branch
ResultadoError(nombre, email, error) ==
    [nombre |-> nombre, email |-> email, success |-> FALSE, error |-> error]

\* Mutant: a failed generar_certificado is appended but not counted
ContarResultado_sinErrores(l, resultado) ==
    [l EXCEPT !.exitosos = IF resultado.success THEN @ + 1 ELSE @,
              !.resultados = Append(@, resultado),
              !.i = @ + 1,
              !.nombre = None, !.email = None, !.base_slug = None,
              !.slug = None, !.contador = 0, !.consultas = 0,
              !.subida = None]

\* generar_batch's bookkeeping for one result of generar_certificado; the
\* locals of the finished call are dead and are cleared
ContarResultado(l, resultado) ==
    [l EXCEPT !.exitosos = IF resultado.success THEN @ + 1 ELSE @,
              !.errores = IF resultado.success THEN @ ELSE @ + 1,
              !.resultados = Append(@, resultado),
              !.i = @ + 1,
              !.nombre = None, !.email = None, !.base_slug = None,
              !.slug = None, !.contador = 0, !.consultas = 0,
              !.subida = None]

\* Handlers are interchangeable: a request is taken by the first free one.
Libre(p) == pc[p] = "idle" /\ \A q \in 1..(p - 1) : pc[q] # "idle"

\* One pass of generar_batch's for loop up to the resolver, from the locals
\* l, on a participant of the given set: an incomplete participant is
\* counted as an error; otherwise generar_certificado starts, reads the
\* template (lee = FALSE: the read raises) and computes the base slug.
IteracionDe(p, l, participantes) ==
    /\ items + vistas < MaxOps
    /\ items' = items + 1
    /\ \E part \in participantes, lee \in BOOLEAN :
         LET nombre == Get(part, "nombre")
             email == Get(part, "email")
             le == [l EXCEPT !.entrada = Append(@, part)]
         IN IF nombre = None \/ email = None
            THEN /\ loc' = [loc EXCEPT ![p] =
                       [le EXCEPT !.errores = @ + 1,
                                 !.resultados = Append(@,
                                     [error |-> "Participante sin nombre o email",
                                      participante |-> part, success |-> FALSE]),
                                 !.i = @ + 1]]
                 /\ pc' = [pc EXCEPT ![p] = "batch_loop"]
            ELSE IF ~lee
            THEN /\ loc' = [loc EXCEPT ![p] =
                       ContarResultado(le, ResultadoError(nombre, email, "IOError"))]
                 /\ pc' = [pc EXCEPT ![p] = "batch_loop"]
            ELSE /\ loc' = [loc EXCEPT ![p] =
                       [le EXCEPT !.nombre = nombre, !.email = email,
                                 !.base_slug = nombre_to_slug(nombre),
                                 !.slug = nombre_to_slug(nombre),
                                 !.contador = 2, !.consultas = 0,
                                 !.subida = None]]
                 /\ pc' = [pc EXCEPT ![p] = "resolver"]
    /\ ret' = None
    /\ UNCHANGED <<certificados, nube, reloj, storage, vistas, vistasOk>>

\* The pass on a participant of the ordinary requests
Iteracion(p, l) == IteracionDe(p, l, Participantes)

\* A request calls generar_batch with a non-empty list and the loop makes
\* its first pass. The list is an input read one participant per pass: its
\* length is the number of passes made when the handler leaves the loop.
IniciarBatch(p) ==
    /\ Libre(p)
    /\ Iteracion(p, [Idle EXCEPT !.tipo = "batch"])

\* A later pass of the for loop
BatchIter(p) ==
    /\ pc[p] = "batch_loop"
    /\ loc[p].i < MaxBatch
    /\ Iteracion(p, loc[p])

\* One test of generar_slug_unico's while condition: a lookup, then either
\* the next candidate or the return to generar_certificado
Resolver(p) ==
    /\ pc[p] = "resolver"
    /\ IF obtener_certificado(loc[p].slug) # None
       THEN /\ loc' = [loc EXCEPT ![p] =
                  [@ EXCEPT !.slug = SlugConSufijo(loc[p].base_slug, loc[p].contador),
                            !.contador = @ + 1, !.consultas = @ + 1]]
            /\ pc' = pc
       ELSE /\ loc' = [loc EXCEPT ![p] = [@ EXCEPT !.consultas = @ + 1]]
            /\ pc' = [pc EXCEPT ![p] = "subir"]
    /\ ret' = None
    /\ UNCHANGED <<certificados, nube, reloj, storage, items, vistas, vistasOk>>

\* Mutant: when the upload fails the generator goes on with the URL the
\* asset would have had, and saves
Subir_urlSinSubir(p) ==
    /\ pc[p] = "subir"
    /\ \E sube \in BOOLEAN :
         IF storage = "ok"
         THEN /\ nube' = IF sube THEN NubeTrasSubida(loc[p].slug, loc[p].nombre)
                         ELSE nube
              /\ loc' = [loc EXCEPT ![p] =
                    [@ EXCEPT !.subida = <<ResultadoSubida(loc[p].slug)>>]]
              /\ pc' = [pc EXCEPT ![p] = "guardar"]
         ELSE /\ nube' = nube
              /\ loc' = [loc EXCEPT ![p] =
                    ContarResultado(@, ResultadoError(@.nombre, @.email,
                        "Cloudinary no esta configurado"))]
              /\ pc' = [pc EXCEPT ![p] = "batch_loop"]
    /\ ret' = None
    /\ UNCHANGED <<certificados, reloj, storage, items, vistas, vistasOk>>

\* Mutant: the record is saved before the upload is attempted, so a failed
\* upload leaves it behind
Subir_guardaAntes(p) ==
    /\ pc[p] = "subir"
    /\ \E sube \in BOOLEAN :
         IF storage = "ok" /\ sube
         THEN /\ nube' = NubeTrasSubida(loc[p].slug, loc[p].nombre)
              /\ loc' = [loc EXCEPT ![p] =
                    [@ EXCEPT !.subida = <<ResultadoSubida(loc[p].slug)>>]]
              /\ pc' = [pc EXCEPT ![p] = "guardar"]
              /\ UNCHANGED <<certificados, reloj>>
         ELSE /\ nube' = nube
              /\ reloj' = reloj + 1
              /\ certificados' =
                    guardar_certificado(loc[p].slug, loc[p].nombre, loc[p].email,
                        ResultadoSubida(loc[p].slug).url,
                        ResultadoSubida(loc[p].slug).public_id, reloj').tabla
              /\ loc' = [loc EXCEPT ![p] =
                    ContarResultado(@, ResultadoError(@.nombre, @.email,
                        "Error al subir certificado a Cloudinary"))]
              /\ pc' = [pc EXCEPT ![p] = "batch_loop"]
    /\ ret' = None
    /\ UNCHANGED <<storage, items, vistas, vistasOk>>

\* The upload step of generar_certificado: upload_svg answers a result
\* (sube = TRUE) or None; without a configured storage, or on None, the
\* exception ends generar_certificado with success False.
Subir(p) ==
    /\ pc[p] = "subir"
    /\ \E sube \in BOOLEAN :
         IF storage = "ok" /\ sube
         THEN /\ nube' = NubeTrasSubida(loc[p].slug, loc[p].nombre)
              /\ loc' = [loc EXCEPT ![p] =
                    [@ EXCEPT !.subida = <<ResultadoSubida(loc[p].slug)>>]]
              /\ pc' = [pc EXCEPT ![p] = "guardar"]
         ELSE /\ nube' = nube
              /\ loc' = [loc EXCEPT ![p] =
                    ContarResultado(@, ResultadoError(@.nombre, @.email,
                        IF storage = "ok"
                        THEN "Error al subir certificado a Cloudinary"
                        ELSE "Cloudinary no esta configurado"))]
              /\ pc' = [pc EXCEPT ![p] = "batch_loop"]
    /\ ret' = None
    /\ UNCHANGED <<certificados, reloj, storage, items, vistas, vistasOk>>

\* What guardar_certificado answers to the save of generar_certificado
GuardarDe(l, t) ==
    guardar_certificado(l.slug, l.nombre, l.email, l.subida[1].url,
                        l.subida[1].public_id, t)

\* The save step of generar_certificado and its return: the value
\* guardar_certificado answers is not read, the result says success True.
Guardar(p) ==
    /\ pc[p] = "guardar"
    /\ reloj' = reloj + 1
    /\ certificados' = GuardarDe(loc[p], reloj').tabla
    /\ loc' = [loc EXCEPT ![p] =
          [ContarResultado(@, ResultadoOk(@))
             EXCEPT !.agregados = IF GuardarDe(loc[p], reloj').ok THEN @ + 1 ELSE @]]
    /\ pc' = [pc EXCEPT ![p] = "batch_loop"]
    /\ ret' = None
    /\ UNCHANGED <<nube, storage, items, vistas, vistasOk>>

\* The dict generar_batch returns
Resumen(l) ==
    [total |-> l.i, exitosos |-> l.exitosos, errores |-> l.errores,
     resultados |-> l.resultados]

\* The list is exhausted: generar_batch returns its summary
BatchReturn(p) ==
    /\ pc[p] = "batch_loop"
    /\ ret' = <<p, "generar_batch", None, Resumen(loc[p])>>
    /\ pc' = [pc EXCEPT ![p] = "idle"]
    /\ loc' = [loc EXCEPT ![p] = Idle]
    /\ UNCHANGED <<certificados, nube, reloj, storage, items, vistas, vistasOk>>

\* ------------------------------------------------------- marcar_como_visto
\* A request calls marcar_como_visto(slug), which runs
\* session.query(Certificado).filter(slug == slug).first(): the row is
\* loaded into the session, or the call returns False
IniciarVisto(p) ==
    /\ Libre(p)
    /\ items + vistas < MaxOps
    /\ vistas' = vistas + 1
    /\ \E slug \in SlugsVista :
         IF FilasConSlug(slug) # << >>
         THEN /\ loc' = [loc EXCEPT ![p] =
                    [Idle EXCEPT !.tipo = "visto", !.slug = slug,
                                 !.leido = <<FilasConSlug(slug)[1]>>]]
              /\ pc' = [pc EXCEPT ![p] = "visto_commit"]
              /\ ret' = None
         ELSE /\ loc' = loc
              /\ pc' = pc
              /\ ret' = <<p, "marcar_como_visto", slug, FALSE>>
    /\ UNCHANGED <<certificados, nube, reloj, storage, items, vistasOk>>

\* Mutant: only the first visit sets ultima_visita
FilaVista_soloPrimera(leido, t) ==
    [leido EXCEPT !.visto = @ + 1,
                  !.ultima_visita = IF @ = None THEN <<t>> ELSE @]

\* Mutant: the update also stamps fecha_generacion
TablaTrasVisto_tocaFecha(leido, t) ==
    [k \in 1..Len(certificados) |->
        IF certificados[k].id = leido.id
        THEN [certificados[k] EXCEPT !.visto = leido.visto + 1,
                                     !.ultima_visita = <<t>>,
                                     !.fecha_generacion = t]
        ELSE certificados[k]]

\* The values `certificado.visto += 1` and `ultima_visita = utcnow()` give
\* the loaded row
FilaVista(leido, t) == [leido EXCEPT !.visto = @ + 1, !.ultima_visita = <<t>>]

\* session.commit(): UPDATE certificados SET visto, ultima_visita WHERE id
TablaTrasVisto(leido, t) ==
    [k \in 1..Len(certificados) |->
        IF certificados[k].id = leido.id
        THEN [certificados[k] EXCEPT !.visto = FilaVista(leido, t).visto,
                                     !.ultima_visita = FilaVista(leido, t).ultima_visita]
        ELSE certificados[k]]

\* The increment, the timestamp and the commit of marcar_como_visto
VistoCommit(p) ==
    /\ pc[p] = "visto_commit"
    /\ reloj' = reloj + 1
    /\ certificados' = TablaTrasVisto(loc[p].leido[1], reloj')
    /\ vistasOk' = [vistasOk EXCEPT ![loc[p].slug] = @ + 1]
    /\ ret' = <<p, "marcar_como_visto", loc[p].slug, TRUE>>
    /\ pc' = [pc EXCEPT ![p] = "idle"]
    /\ loc' = [loc EXCEPT ![p] = Idle]
    /\ UNCHANGED <<nube, storage, items, vistas>>

\* ---------------------------------------------------------- specifications
\* Calls of generar_batch and marcar_como_visto run concurrently: any
\* handler may take its next step. No HTTP request is involved.
Next ==
    /\ \E p \in Procs :
          \/ IniciarBatch(p)
          \/ BatchIter(p)
          \/ Resolver(p)
          \/ Subir(p)
          \/ Guardar(p)
          \/ BatchReturn(p)
          \/ IniciarVisto(p)
          \/ VistoCommit(p)
    /\ UNCHANGED web

Spec == Init /\ [][Next]_vars

\* A call that has started keeps running: the thread of a handler is
\* scheduled again until its call returns (a batch_loop with no item left
\* returns).
Paso(p) ==
    /\ \/ BatchIter(p)
       \/ Resolver(p)
       \/ Subir(p)
       \/ Guardar(p)
       \/ BatchReturn(p)
       \/ VistoCommit(p)
    /\ UNCHANGED web

LiveSpec == Spec /\ \A p \in Procs : WF_vars(Paso(p))

\* One request at a time: a request starts only when no other is in progress.
TodosIdle == \A q \in Procs : pc[q] = "idle"

NextSeq ==
    /\ \E p \in Procs :
          \/ TodosIdle /\ IniciarBatch(p)
          \/ BatchIter(p)
          \/ Resolver(p)
          \/ Subir(p)
          \/ Guardar(p)
          \/ BatchReturn(p)
          \/ TodosIdle /\ IniciarVisto(p)
          \/ VistoCommit(p)
    /\ UNCHANGED web

SeqSpec == Init /\ [][NextSeq]_vars

\* ------------------------------------------------- nombre_to_slug by itself
\* Names given to nombre_to_slug: every string of at most MaxNombre
\* characters over Alfabeto, and the name of the function's docstring.
Alfabeto == {"A", "b", "2", " ", "'", "-", "e_acute", "CJK", "DEG_C"}
OBrien == <<"O", "'", "B", "r", "i", "e", "n">>
NombresPrueba ==
    UNION { [1..n -> Alfabeto] : n \in 0..MaxNombre } \cup {OBrien}

\* A caller holds a name
SlugInit ==
    /\ certificados = << >> /\ nube = {} /\ reloj = 0 /\ storage = "ok"
    /\ \E n \in NombresPrueba :
          loc = [p \in Procs |-> IF p = 1 THEN [Idle EXCEPT !.nombre = n] ELSE Idle]
    /\ pc = [p \in Procs |-> IF p = 1 THEN "slug" ELSE "idle"]
    /\ ret = None
    /\ items = 0 /\ vistas = 0
    /\ vistasOk = [s \in SlugsVista |-> 0]
    /\ db = "ok" /\ session = "logged_out" /\ claveEnviada = FALSE
    /\ peticiones = 0

\* The caller calls nombre_to_slug(nombre)
Slugificar(p) ==
    /\ pc[p] = "slug"
    /\ ret' = <<p, "nombre_to_slug", loc[p].nombre, nombre_to_slug(loc[p].nombre)>>
    /\ pc' = [pc EXCEPT ![p] = "idle"]
    /\ loc' = [loc EXCEPT ![p] = Idle]
    /\ UNCHANGED <<certificados, nube, reloj, storage, items, vistas, vistasOk>>
    /\ UNCHANGED web

SlugNext == \E p \in Procs : Slugificar(p)

SlugSpec == SlugInit /\ [][SlugNext]_vars

\* ------------------------------------------------------------ HTTP surface
\* The handlers of app.py. A handler that makes at most one database call
\* is one step; ver_certificado, which reads, updates and then fetches the
\* asset, is several. flask_limiter's rate limits are left to the framework.
\* A step that answers a request sets ret to
\* <<handler slot, view function, request arguments, response>>.

\* config.py's Config defines no ADMIN_ALLOWED_IPS: reading the attribute
\* raises AttributeError.
AtributoAusente == "AttributeError"
ADMIN_ALLOWED_IPS == AtributoAusente
\* config.DEBUG, from os.getenv('DEBUG', 'False')
DEBUG == FALSE
\* config.ADMIN_PASSWORD, from os.getenv('ADMIN_PASSWORD', 'admin123')
ADMIN_PASSWORD == <<"admin123">>

\* request.remote_addr of the requests
IPs == {"10.0.0.1"}
\* request.form.get('password') of the login requests; None: no such field
Claves == {ADMIN_PASSWORD, <<"otra">>, None}

\* The decorator require_admin_ip, up to the call of the wrapped view:
\* "ok" when the view is called, "403" when the decorator answers, and
\* the exception when reading the configuration raises.
require_admin_ip(client_ip) ==
    IF ADMIN_ALLOWED_IPS = AtributoAusente THEN "AttributeError"
    ELSE IF ADMIN_ALLOWED_IPS = {} /\ ~DEBUG THEN "403"
    ELSE IF ADMIN_ALLOWED_IPS # {} /\ client_ip \notin ADMIN_ALLOWED_IPS THEN "403"
    ELSE "ok"

\* jsonify({'error': ...}), status
Json(status, error) == [status |-> status, error |-> error]
\* redirect(location)
Redirect(location) == [status |-> 302, location |-> location]
\* render_template(template, ...), status
Pagina(status, template, mensaje) ==
    [status |-> status, template |-> template, mensaje |-> mensaje]
\* str(e) of an exception e, as it is put into a response. An exception is
\* modelled by its message: the application's own are the texts it raises
\* them with, the interpreter's and the libraries' are named by their class.
str(e) == e
\* The messages the application did not write: "AttributeError" is
\* "'NoneType' object has no attribute ...", "TypeError" is the constructor's
\* complaint about its argument, "IOError" is open()'s errno text and path.
MensajesInternos == {"AttributeError", "TypeError", "IOError"}

\* An exception that leaves a view function: Flask answers with the
\* errorhandler(500), internal_error
internal_error == Json(500, "Error interno del servidor")

\* What the client gets when require_admin_ip does not call the view
RespuestaAcceso(acceso) ==
    IF acceso = "403" THEN Json(403, "Acceso denegado") ELSE internal_error

\* A request arrives and a free handler takes it
Recibir(p) ==
    /\ Libre(p)
    /\ items + vistas + peticiones < MaxOps
    /\ peticiones' = peticiones + 1

\* GET /admin
admin_redirect(p) ==
    /\ Recibir(p)
    /\ \E ip \in IPs :
         ret' = <<p, "admin_redirect", [ip |-> ip],
                  IF require_admin_ip(ip) # "ok"
                  THEN RespuestaAcceso(require_admin_ip(ip))
                  ELSE IF session = "logged_in" THEN Redirect("/admin/dashboard")
                  ELSE Redirect("/admin/login")>>
    /\ UNCHANGED <<certificados, nube, reloj, storage, pc, loc, items, vistas,
                   vistasOk, db, session, claveEnviada>>

\* GET and POST /admin/login
admin_login(p) ==
    /\ Recibir(p)
    /\ \E ip \in IPs, method \in {"GET", "POST"}, password \in Claves :
         /\ method = "GET" => password = None
         /\ claveEnviada' =
               IF method = "POST" /\ password = ADMIN_PASSWORD THEN TRUE
               ELSE claveEnviada
         /\ IF require_admin_ip(ip) # "ok"
            THEN /\ session' = session
                 /\ ret' = <<p, "admin_login",
                             [ip |-> ip, method |-> method, password |-> password],
                             RespuestaAcceso(require_admin_ip(ip))>>
            ELSE IF method = "POST" /\ password = ADMIN_PASSWORD
            THEN /\ session' = "logged_in"
                 /\ ret' = <<p, "admin_login",
                             [ip |-> ip, method |-> method, password |-> password],
                             Redirect("/admin/dashboard")>>
            ELSE /\ session' = session
                 /\ ret' = <<p, "admin_login",
                             [ip |-> ip, method |-> method, password |-> password],
                             Pagina(200, "admin_login.html",
                                    IF method = "POST" THEN "Clave incorrecta"
                                    ELSE None)>>
    /\ UNCHANGED <<certificados, nube, reloj, storage, pc, loc, items, vistas,
                   vistasOk, db>>

\* GET /admin/logout
admin_logout(p) ==
    /\ Recibir(p)
    /\ claveEnviada' = FALSE
    /\ \E ip \in IPs :
         IF require_admin_ip(ip) # "ok"
         THEN /\ session' = session
              /\ ret' = <<p, "admin_logout", [ip |-> ip],
                          RespuestaAcceso(require_admin_ip(ip))>>
         ELSE /\ session' = "logged_out"
              /\ ret' = <<p, "admin_logout", [ip |-> ip], Redirect("/admin/login")>>
    /\ UNCHANGED <<certificados, nube, reloj, storage, pc, loc, items, vistas,
                   vistasOk, db>>

\* Rows in the order of ORDER BY fecha_generacion DESC
RECURSIVE OrdenDesc(_)
OrdenDesc(filas) ==
    IF filas = << >> THEN << >>
    ELSE LET k == CHOOSE k \in 1..Len(filas) :
                      \A j \in 1..Len(filas) :
                          filas[j].fecha_generacion <= filas[k].fecha_generacion
         IN <<filas[k]>> \o
            OrdenDesc([j \in 1..(Len(filas) - 1) |->
                          IF j < k THEN filas[j] ELSE filas[j + 1]])

\* .limit(limite).offset(offset) on an ordered result
LimitOffset(filas, limite, offset) ==
    [j \in 1..(IF Len(filas) - offset < 0 THEN 0
                ELSE IF Len(filas) - offset < limite THEN Len(filas) - offset
                ELSE limite) |-> filas[offset + j]]

\* Database.listar_certificados
listar_certificados(limite, offset) ==
    LET filas == LimitOffset(OrdenDesc(certificados), limite, offset)
    IN [j \in 1..Len(filas) |-> to_dict(filas[j])]

\* Database.contar_certificados
contar_certificados == Len(certificados)

\* column ILIKE '%q%' for a q without wildcards
ILike(valor, q) ==
    \E i \in 0..(Len(valor) - Len(q)) :
        LowerStr(SubSeq(valor, i + 1, i + Len(q))) = LowerStr(q)

\* Database.buscar_por_email
buscar_por_email(email) ==
    LET filas == OrdenDesc(SelectSeq(certificados, LAMBDA c : ILike(c.email, email)))
    IN [j \in 1..Len(filas) |-> to_dict(filas[j])]

\* Database.buscar_por_nombre
buscar_por_nombre(nombre) ==
    LET filas == OrdenDesc(SelectSeq(certificados, LAMBDA c : ILike(c.nombre, nombre)))
    IN [j \in 1..Len(filas) |-> to_dict(filas[j])]

\* The longest slug validate_slug accepts
LargoSlugMaximo == 100

\* security.validate_slug: ^[a-z0-9\-_]{1,100}$ and not one of the
\* listed strings
validate_slug(slug) ==
    /\ slug # << >>
    /\ Len(slug) <= LargoSlugMaximo
    /\ \A i \in 1..Len(slug) : slug[i] \in AsciiLower \cup AsciiDigit \cup {"-", "_"}
    /\ slug \notin {<<".">>, <<".", ".">>, <<"-">>, <<"-", "-">>}

\* security.validate_cloudinary_url: https and a cloudinary.com host, which
\* the secure_url of an upload has
validate_cloudinary_url(url) == url # None /\ url[1] = "https"

\* the slugs of the requests: those of SlugsVista and one validate_slug
\* rejects
SlugsPeticion == SlugsVista \cup { <<"-">> }

\* cert['url'] = f"{config.APP_URL}/certificado/{cert['slug']}"
ConUrl(cert) ==
    [k \in DOMAIN cert \cup {"url"} |->
        IF k = "url" THEN <<"APP_URL", "/certificado/", cert.slug>> ELSE cert[k]]

\* What requests.get(url) and svg_to_pdf make of an asset
ResultadosDescarga == {"ok", "fetch_error", "too_large", "pdf_error"}

\* The response of the PDF views once the record is known, from
\* validate_cloudinary_url on: error is the view's error response for
\* the message it is given
ServirPdf(certificado, resultado, adjunto) ==
    IF certificado.cloudinary_url # None
       /\ ~validate_cloudinary_url(certificado.cloudinary_url)
    THEN [status |-> 500, mensaje |-> "Error de configuracion"]
    ELSE IF certificado.cloudinary_url = None \/ resultado \in {"fetch_error", "too_large"}
    THEN [status |-> 500, mensaje |-> "Error al cargar el certificado"]
    ELSE IF resultado = "pdf_error"
    THEN [status |-> 500,
          mensaje |-> IF adjunto THEN "Error al generar PDF"
                      ELSE "Error al cargar el certificado"]
    ELSE [status |-> 200, mimetype |-> "application/pdf", adjunto |-> adjunto,
          svg |-> { a.nombre : a \in { b \in nube : b.url = certificado.cloudinary_url } }]

\* GET /preview/<slug>
preview_certificado(p) ==
    /\ Recibir(p)
    /\ \E slug \in SlugsPeticion :
         ret' = <<p, "preview_certificado", [slug |-> slug],
                  IF ~validate_slug(slug) THEN Json(404, "Certificado no encontrado")
                  ELSE IF db = "none" THEN Json(500, "Error interno del servidor")
                  ELSE IF obtener_certificado(slug) = None
                  THEN Json(404, "Certificado no encontrado")
                  ELSE IF storage = "ok" THEN Redirect(<<"png", slug>>)
                  ELSE Json(503, "Preview no disponible")>>
    /\ UNCHANGED <<certificados, nube, reloj, storage, pc, loc, items, vistas,
                   vistasOk, db, session, claveEnviada>>

\* GET /descargar/<slug>
descargar_certificado(p) ==
    /\ Recibir(p)
    /\ \E slug \in SlugsPeticion :
         ret' = <<p, "descargar_certificado", [slug |-> slug],
                  IF ~validate_slug(slug) THEN Json(404, "Certificado no encontrado")
                  ELSE IF db = "none" THEN Json(500, "Error interno del servidor")
                  ELSE IF obtener_certificado(slug) = None
                  THEN Json(404, "Certificado no encontrado")
                  ELSE IF ~validate_cloudinary_url(obtener_certificado(slug)[1].cloudinary_url)
                  THEN Json(500, "Error de configuracion")
                  ELSE Redirect(obtener_certificado(slug)[1].cloudinary_url)>>
    /\ UNCHANGED <<certificados, nube, reloj, storage, pc, loc, items, vistas,
                   vistasOk, db, session, claveEnviada>>

\* GET /certificado/<slug>/pdf
descargar_certificado_pdf(p) ==
    /\ Recibir(p)
    /\ \E slug \in SlugsPeticion, resultado \in ResultadosDescarga :
         ret' = <<p, "descargar_certificado_pdf", [slug |-> slug],
                  IF ~validate_slug(slug) THEN Json(404, "Certificado no encontrado")
                  ELSE IF db = "none" THEN Json(500, "Error al generar PDF")
                  ELSE IF obtener_certificado(slug) = None
                  THEN Json(404, "Certificado no encontrado")
                  ELSE ServirPdf(obtener_certificado(slug)[1], resultado, TRUE)>>
    /\ UNCHANGED <<certificados, nube, reloj, storage, pc, loc, items, vistas,
                   vistasOk, db, session, claveEnviada>>

\* request.args.get('limite', 100, type=int) and ('offset', 0, type=int)
LimiteDefecto == 100
LimiteMaximo == 500
Limites == {1, LimiteDefecto}
Offsets == {0, 1}

\* GET /listar-certificados
listar(p) ==
    /\ Recibir(p)
    /\ \E limite \in Limites, offset \in Offsets :
         ret' = <<p, "listar_certificados", [limite |-> limite, offset |-> offset],
                  IF db = "none" THEN Json(500, str("AttributeError"))
                  ELSE LET lim == IF limite > LimiteMaximo THEN LimiteMaximo ELSE limite
                           certs == listar_certificados(lim, offset)
                       IN [status |-> 200, total |-> contar_certificados,
                           limite |-> lim, offset |-> offset,
                           certificados |-> [j \in 1..Len(certs) |-> ConUrl(certs[j])]]>>
    /\ UNCHANGED <<certificados, nube, reloj, storage, pc, loc, items, vistas,
                   vistasOk, db, session, claveEnviada>>

\* the search strings of the requests
Busquedas == { <<"e">>, <<"a">> }

\* GET /buscar/email/<email>
buscar_email(p) ==
    /\ Recibir(p)
    /\ \E q \in Busquedas :
         ret' = <<p, "buscar_por_email", [email |-> q],
                  IF db = "none" THEN Json(500, str("AttributeError"))
                  ELSE LET certs == buscar_por_email(q)
                       IN [status |-> 200, total |-> Len(certs),
                           certificados |-> [j \in 1..Len(certs) |-> ConUrl(certs[j])]]>>
    /\ UNCHANGED <<certificados, nube, reloj, storage, pc, loc, items, vistas,
                   vistasOk, db, session, claveEnviada>>

\* GET /buscar/nombre/<nombre>
buscar_nombre(p) ==
    /\ Recibir(p)
    /\ \E q \in Busquedas :
         ret' = <<p, "buscar_por_nombre", [nombre |-> q],
                  IF db = "none" THEN Json(500, str("AttributeError"))
                  ELSE LET certs == buscar_por_nombre(q)
                       IN [status |-> 200, total |-> Len(certs),
                           certificados |-> [j \in 1..Len(certs) |-> ConUrl(certs[j])]]>>
    /\ UNCHANGED <<certificados, nube, reloj, storage, pc, loc, items, vistas,
                   vistasOk, db, session, claveEnviada>>

\* GET /: the API's description. The count is read only when there is a
\* database, and a failing count is taken as 0.
index(p) ==
    /\ Recibir(p)
    /\ ret' = <<p, "index", [path |-> "/"],
                [status |-> 200,
                 certificados_generados |-> IF db = "ok" THEN contar_certificados ELSE 0,
                 cloudinary_configurado |-> (storage = "ok"),
                 database_configurado |-> (db = "ok")]>>
    /\ UNCHANGED <<certificados, nube, reloj, storage, pc, loc, items, vistas,
                   vistasOk, db, session, claveEnviada>>

\* GET /health
health(p) ==
    /\ Recibir(p)
    /\ ret' = <<p, "health", [path |-> "/health"],
                [status |-> 200, estado |-> "healthy",
                 database |-> IF db = "ok" THEN "connected" ELSE "not_configured",
                 cloudinary |-> IF storage = "ok" THEN "configured"
                                ELSE "not_configured",
                 certificados_totales |-> IF db = "ok" THEN contar_certificados ELSE 0]>>
    /\ UNCHANGED <<certificados, nube, reloj, storage, pc, loc, items, vistas,
                   vistasOk, db, session, claveEnviada>>

\* db.listar_certificados(limite=1000) of the dashboard and
\* db.listar_certificados(limite=10000) of the exports
LimiteDashboard == 1000
LimiteExport == 10000

\* GET /admin/dashboard
admin_dashboard(p) ==
    /\ Recibir(p)
    /\ \E ip \in IPs :
         ret' = <<p, "admin_dashboard", [ip |-> ip],
                  IF require_admin_ip(ip) # "ok"
                  THEN RespuestaAcceso(require_admin_ip(ip))
                  ELSE IF session # "logged_in" THEN Redirect("/admin/login")
                  ELSE IF db = "none" THEN Json(500, str("AttributeError"))
                  ELSE [status |-> 200, template |-> "admin_dashboard.html",
                        certificados |-> listar_certificados(LimiteDashboard, 0),
                        total |-> contar_certificados,
                        cloudinary_configurado |-> (storage = "ok")]>>
    /\ UNCHANGED <<certificados, nube, reloj, storage, pc, loc, items, vistas,
                   vistasOk, db, session, claveEnviada>>

\* One data row of the CSV and of the spreadsheet
FilaExport(cert) ==
    <<cert.nombre, cert.email, cert.slug, <<"APP_URL", "/certificado/", cert.slug>>,
      cert.visto, cert.fecha_generacion, cert.cloudinary_url>>

\* The response of both export views; formato is "csv" or "xlsx"
Exportar(ip, formato) ==
    IF require_admin_ip(ip) # "ok" THEN RespuestaAcceso(require_admin_ip(ip))
    ELSE IF session # "logged_in" THEN Redirect("/admin/login")
    ELSE IF db = "none" THEN Json(500, str("AttributeError"))
    ELSE LET certs == listar_certificados(LimiteExport, 0)
         IN [status |-> 200, formato |-> formato,
             filas |-> [j \in 1..Len(certs) |-> FilaExport(certs[j])]]

\* GET /admin/exportar
admin_exportar(p) ==
    /\ Recibir(p)
    /\ \E ip \in IPs : ret' = <<p, "admin_exportar", [ip |-> ip], Exportar(ip, "csv")>>
    /\ UNCHANGED <<certificados, nube, reloj, storage, pc, loc, items, vistas,
                   vistasOk, db, session, claveEnviada>>

\* GET /admin/exportar-excel
admin_exportar_excel(p) ==
    /\ Recibir(p)
    /\ \E ip \in IPs :
         ret' = <<p, "admin_exportar_excel", [ip |-> ip], Exportar(ip, "xlsx")>>
    /\ UNCHANGED <<certificados, nube, reloj, storage, pc, loc, items, vistas,
                   vistasOk, db, session, claveEnviada>>

\* The bodies of the generation requests: not a JSON object (no JSON, a
\* list), an object whose participantes is missing or empty, one with more
\* than 1000 participants, one with a participant whose nombre is blank or
\* whose email is not an address, and a list of well-formed participants
Cuerpos == {"no_objeto", "sin_participantes", "demasiados", "participante_invalido",
            "valido"}

\* The loop has not met a participant without nombre or email
SinIncompletos(l) ==
    \A k \in 1..Len(l.resultados) : "participante" \notin DOMAIN l.resultados[k]

\* POST /generar-certificados: the request up to the first pass of
\* generar_batch's loop. GenerarCertificadosRequest(**data) raises TypeError
\* for a body that is not an object and ValidationError for the bodies the
\* schema rejects.
generar_certificados(p) ==
    /\ Recibir(p)
    /\ \E ip \in IPs, cuerpo \in Cuerpos :
         IF require_admin_ip(ip) # "ok"
         THEN /\ ret' = <<p, "generar_certificados", [ip |-> ip, cuerpo |-> cuerpo],
                          RespuestaAcceso(require_admin_ip(ip))>>
              /\ UNCHANGED <<pc, loc, items>>
         ELSE IF cuerpo = "no_objeto"
         THEN /\ ret' = <<p, "generar_certificados", [ip |-> ip, cuerpo |-> cuerpo],
                          [status |-> 500, error |-> "Error interno del servidor",
                           details |-> str("TypeError")]>>
              /\ UNCHANGED <<pc, loc, items>>
         ELSE IF cuerpo # "valido"
         THEN /\ ret' = <<p, "generar_certificados", [ip |-> ip, cuerpo |-> cuerpo],
                          [status |-> 400, error |-> "Datos invalidos",
                           details |-> <<"e.errors()", cuerpo>>]>>
              /\ UNCHANGED <<pc, loc, items>>
         ELSE /\ db = "ok"
              /\ Iteracion(p, [Idle EXCEPT !.tipo = "batch_validado"])
              /\ SinIncompletos(loc'[p])
    /\ UNCHANGED <<certificados, nube, reloj, storage, vistas, vistasOk, db,
                   session, claveEnviada>>

\* POST /admin/generar: the request up to the first pass of generar_batch's
\* loop. The body is not validated: data.get raises AttributeError for a
\* body that is not an object, a missing list is the empty list, and any
\* participant dict reaches generar_batch.
admin_generar(p) ==
    /\ Recibir(p)
    /\ \E ip \in IPs, cuerpo \in Cuerpos :
         IF require_admin_ip(ip) # "ok"
         THEN /\ ret' = <<p, "admin_generar", [ip |-> ip, cuerpo |-> cuerpo],
                          RespuestaAcceso(require_admin_ip(ip))>>
              /\ UNCHANGED <<pc, loc, items>>
         ELSE IF session # "logged_in"
         THEN /\ ret' = <<p, "admin_generar", [ip |-> ip, cuerpo |-> cuerpo],
                          Json(401, "No autorizado")>>
              /\ UNCHANGED <<pc, loc, items>>
         ELSE IF cuerpo = "no_objeto" \/ db = "none"
         THEN /\ ret' = <<p, "admin_generar", [ip |-> ip, cuerpo |-> cuerpo],
                          Json(500, str("AttributeError"))>>
              /\ UNCHANGED <<pc, loc, items>>
         ELSE IF cuerpo = "sin_participantes"
         THEN /\ ret' = <<p, "admin_generar", [ip |-> ip, cuerpo |-> cuerpo],
                          [status |-> 200, total |-> 0, exitosos |-> 0,
                           errores |-> 0, resultados |-> << >>]>>
              /\ UNCHANGED <<pc, loc, items>>
         ELSE Iteracion(p, [Idle EXCEPT !.tipo = "batch"])
    /\ UNCHANGED <<certificados, nube, reloj, storage, vistas, vistasOk, db,
                   session, claveEnviada>>

\* GET /certificado/<slug>, up to the lookup: validate_slug, then
\* db.obtener_certificado; with db None the call raises and the view's
\* except branch answers
VerBuscar(p) ==
    /\ Recibir(p)
    /\ \E slug \in SlugsPeticion :
         IF ~validate_slug(slug) \/ (db = "ok" /\ obtener_certificado(slug) = None)
         THEN /\ ret' = <<p, "ver_certificado", [slug |-> slug],
                          Pagina(404, "error.html", "Certificado no encontrado")>>
              /\ UNCHANGED <<pc, loc>>
         ELSE IF db = "none"
         THEN /\ ret' = <<p, "ver_certificado", [slug |-> slug],
                          Pagina(500, "error.html", "Error al cargar el certificado")>>
              /\ UNCHANGED <<pc, loc>>
         ELSE /\ ret' = None
              /\ loc' = [loc EXCEPT ![p] =
                    [Idle EXCEPT !.tipo = "ver", !.slug = slug,
                                 !.certificado = obtener_certificado(slug)]]
              /\ pc' = [pc EXCEPT ![p] = "ver_marcar"]
    /\ UNCHANGED <<certificados, nube, reloj, storage, items, vistas, vistasOk, db,
                   session, claveEnviada>>

\* Mutant: the view fetches and renders the asset without having called
\* marcar_como_visto (the counter would count served certificates only)
VerMarcar_sinMarcar(p) ==
    /\ pc[p] = "ver_marcar"
    /\ pc' = [pc EXCEPT ![p] = "ver_servir"]
    /\ ret' = None
    /\ UNCHANGED <<loc, certificados, nube, reloj, storage, items, vistas, vistasOk>>
    /\ UNCHANGED web

\* ver_certificado calls db.marcar_como_visto(slug): the query
VerMarcar(p) ==
    /\ pc[p] = "ver_marcar"
    /\ IF FilasConSlug(loc[p].slug) # << >>
       THEN /\ loc' = [loc EXCEPT ![p] =
                  [@ EXCEPT !.leido = <<FilasConSlug(loc[p].slug)[1]>>]]
            /\ pc' = [pc EXCEPT ![p] = "ver_commit"]
            /\ ret' = None
       ELSE /\ loc' = loc
            /\ pc' = [pc EXCEPT ![p] = "ver_servir"]
            /\ ret' = <<p, "marcar_como_visto", loc[p].slug, FALSE>>
    /\ UNCHANGED <<certificados, nube, reloj, storage, items, vistas, vistasOk>>
    /\ UNCHANGED web

\* ... and its increment, timestamp and commit
VerCommit(p) ==
    /\ pc[p] = "ver_commit"
    /\ reloj' = reloj + 1
    /\ certificados' = TablaTrasVisto(loc[p].leido[1], reloj')
    /\ vistasOk' = [vistasOk EXCEPT ![loc[p].slug] = @ + 1]
    /\ ret' = <<p, "marcar_como_visto", loc[p].slug, TRUE>>
    /\ pc' = [pc EXCEPT ![p] = "ver_servir"]
    /\ loc' = [loc EXCEPT ![p] = [@ EXCEPT !.leido = None]]
    /\ UNCHANGED <<nube, storage, items, vistas>>
    /\ UNCHANGED web

\* The rest of ver_certificado: the asset is fetched and rendered
VerServir(p) ==
    /\ pc[p] = "ver_servir"
    /\ \E resultado \in ResultadosDescarga :
         ret' = <<p, "ver_certificado", [slug |-> loc[p].slug],
                  ServirPdf(loc[p].certificado[1], resultado, FALSE)>>
    /\ pc' = [pc EXCEPT ![p] = "idle"]
    /\ loc' = [loc EXCEPT ![p] = Idle]
    /\ UNCHANGED <<certificados, nube, reloj, storage, items, vistas, vistasOk>>
    /\ UNCHANGED web

\* The application starts with or without a database (Database(...) raised);
\* without one there is no generator either.
AppInit ==
    /\ db \in {"none", "ok"}
    /\ \/ certificados = << >> /\ nube = {} /\ reloj = 0
       \/ db = "ok" /\ certificados = <<FilaInicial>> /\ nube = {AssetInicial}
          /\ reloj = 1
    /\ storage \in {"none", "unconfigured", "ok"}
    /\ pc = [p \in Procs |-> "idle"]
    /\ loc = [p \in Procs |-> Idle]
    /\ ret = None
    /\ items = 0
    /\ vistas = 0
    /\ vistasOk = [s \in SlugsVista |-> 0]
    /\ session = "logged_out"
    /\ claveEnviada = FALSE
    /\ peticiones = 0

\* There is room for one more operation, and a generator to run it
Presupuesto == db = "ok" /\ items + vistas + peticiones < MaxOps

\* HTTP requests, and calls of generar_batch through the generator's own
\* entry points, run concurrently.
AppNext ==
    \E p \in Procs :
        \/ Presupuesto /\ IniciarBatch(p) /\ UNCHANGED web
        \/ Presupuesto /\ BatchIter(p) /\ UNCHANGED web
           /\ (loc[p].tipo = "batch_validado" => SinIncompletos(loc'[p]))
        \/ Resolver(p) /\ UNCHANGED web
        \/ Subir(p) /\ UNCHANGED web
        \/ Guardar(p) /\ UNCHANGED web
        \/ BatchReturn(p) /\ UNCHANGED web
        \/ index(p)
        \/ health(p)
        \/ admin_redirect(p)
        \/ admin_login(p)
        \/ admin_logout(p)
        \/ admin_dashboard(p)
        \/ admin_exportar(p)
        \/ admin_exportar_excel(p)
        \/ generar_certificados(p)
        \/ admin_generar(p)
        \/ VerBuscar(p)
        \/ VerMarcar(p)
        \/ VerCommit(p)
        \/ VerServir(p)
        \/ preview_certificado(p)
        \/ descargar_certificado(p)
        \/ descargar_certificado_pdf(p)
        \/ listar(p)
        \/ buscar_email(p)
        \/ buscar_nombre(p)

AppSpec == AppInit /\ [][AppNext]_vars

\* --------------------------------------------------------- unusual names
\* Names the request schema accepts (1 to 255 characters after strip) whose
\* slug is out of the ordinary: an apostrophe and a CJK letter normalise to
\* the empty string, and a name of 101 letters to a slug of 101.
NombreLargo == [i \in 1..(LargoSlugMaximo + 1) |-> "a"]
NombresRaros == { <<"'">>, <<"CJK">>, NombreLargo }
ParticipantesRaros == { [nombre |-> n, email |-> Email] : n \in NombresRaros }

\* generar_batch is called, one call at a time, with lists of such names
IniciarBatchRaro(p) ==
    /\ Libre(p)
    /\ TodosIdle
    /\ IteracionDe(p, [Idle EXCEPT !.tipo = "batch"], ParticipantesRaros)

BatchIterRaro(p) ==
    /\ pc[p] = "batch_loop"
    /\ loc[p].i < MaxBatch
    /\ IteracionDe(p, loc[p], ParticipantesRaros)

RaroNext ==
    /\ \E p \in Procs :
          \/ IniciarBatchRaro(p)
          \/ BatchIterRaro(p)
          \/ Resolver(p)
          \/ Subir(p)
          \/ Guardar(p)
          \/ BatchReturn(p)
    /\ UNCHANGED web

RaroSpec == Init /\ [][RaroNext]_vars

\* ------------------------------------------------- listing page by page
\* ORDER BY fecha_generacion DESC names one order only when no two rows
\* have the same fecha_generacion; among rows that do, SQL leaves the order
\* to the engine and it may differ from one query to the next.
Permutaciones(n) ==
    { f \in [1..n -> 1..n] : \A i, j \in 1..n : i # j => f[i] # f[j] }
OrdenesDesc(filas) ==
    { [j \in 1..Len(filas) |-> filas[f[j]]] :
        f \in { g \in Permutaciones(Len(filas)) :
                    \A j \in 1..(Len(filas) - 1) :
                        filas[g[j]].fecha_generacion >= filas[g[j + 1]].fecha_generacion } }

\* The slug and name of the n-th row saved
SlugFila(n) == <<Minusculas[n]>>
NombreFila(n) == <<Mayusculas[n]>>

\* A generation saves one more row. fecha_generacion is datetime.utcnow()
\* at the INSERT: the clock has advanced since the last save, or the two
\* saves fall within its resolution and read the same value.
Insertar(p) ==
    /\ p = 1
    /\ TodosIdle
    /\ Len(certificados) < MaxFilas
    /\ \E t \in {reloj, reloj + 1} :
         /\ t >= 1
         /\ reloj' = t
         /\ certificados' =
               guardar_certificado(SlugFila(Len(certificados) + 1),
                   NombreFila(Len(certificados) + 1), Email,
                   ResultadoSubida(SlugFila(Len(certificados) + 1)).url,
                   ResultadoSubida(SlugFila(Len(certificados) + 1)).public_id, t).tabla
    /\ nube' = NubeTrasSubida(SlugFila(Len(certificados) + 1),
                              NombreFila(Len(certificados) + 1))
    /\ ret' = None
    /\ UNCHANGED <<storage, pc, loc, items, vistas, vistasOk>>
    /\ UNCHANGED web

\* limite of the pages a client asks for
LimitesPagina == {1, 2}

\* A client starts to read the whole list page by page
IniciarPaginas(p) ==
    /\ Libre(p)
    /\ TodosIdle
    /\ \E limite \in LimitesPagina :
         loc' = [loc EXCEPT ![p] =
                   [Idle EXCEPT !.tipo = "paginar", !.limite = limite]]
    /\ pc' = [pc EXCEPT ![p] = "paginar"]
    /\ ret' = None
    /\ UNCHANGED <<certificados, nube, reloj, storage, items, vistas, vistasOk>>
    /\ UNCHANGED web

\* Database.listar_certificados(limite, offset) for the next page: the
\* query runs on one of the orders ORDER BY allows. The client stops at the
\* first empty page.
SiguientePagina(p) ==
    /\ pc[p] = "paginar"
    /\ \E orden \in OrdenesDesc(certificados) :
         LET filas == LimitOffset(orden, loc[p].limite, loc[p].offset)
             pagina == [j \in 1..Len(filas) |-> to_dict(filas[j])]
         IN /\ ret' = <<p, "Database.listar_certificados",
                        [limite |-> loc[p].limite, offset |-> loc[p].offset], pagina>>
            /\ loc' = [loc EXCEPT ![p] =
                      [@ EXCEPT !.paginas = Append(@, pagina),
                                !.offset = @ + loc[p].limite]]
            /\ pc' = [pc EXCEPT ![p] = IF pagina = << >> THEN "paginado" ELSE "paginar"]
    /\ UNCHANGED <<certificados, nube, reloj, storage, items, vistas, vistasOk>>
    /\ UNCHANGED web

PagNext == \E p \in Procs : Insertar(p) \/ IniciarPaginas(p) \/ SiguientePagina(p)

\* The table starts empty and is filled by Insertar
PagInit ==
    /\ certificados = << >> /\ nube = {} /\ reloj = 0 /\ storage = "ok"
    /\ pc = [p \in Procs |-> "idle"]
    /\ loc = [p \in Procs |-> Idle]
    /\ ret = None
    /\ items = 0 /\ vistas = 0
    /\ vistasOk = [s \in SlugsVista |-> 0]
    /\ db = "ok" /\ session = "logged_out" /\ claveEnviada = FALSE
    /\ peticiones = 0

PagSpec == PagInit /\ [][PagNext]_vars

\* ------------------------------------------------------------------ claims
\* The k-th candidate of the resolver's sequence base, base-2, base-3, ...
Candidato(base, k) == IF k = 1 THEN base ELSE base \o <<"-">> \o IntToStr(k)

\* The rows created for names that normalise to base, in creation order
FilasDeBase(base) ==
    SelectSeq(certificados, LAMBDA c : nombre_to_slug(c.nombre) = base)

\* C1: in every reachable state, also when generation requests race on one
\* base name, no two rows of the table have the same slug.
C1_SlugUnico ==
    \A j, k \in 1..Len(certificados) :
        certificados[j].slug = certificados[k].slug => j = k

\* C1 witness: two rows are stored and some handler's save was rejected.
C1_Witness ==
    /\ Len(certificados) >= 2
    /\ \E p \in Procs : loc[p].exitosos > loc[p].agregados

C3_Original ==
    \A n \in Nombres :
        \A k \in 1..Len(FilasDeBase(nombre_to_slug(n))) :
            FilasDeBase(nombre_to_slug(n))[k].slug = Candidato(nombre_to_slug(n), k)

\* No row created for another base name holds a candidate of base
SinOcupanteAjeno(base) ==
    \A j \in 1..Len(certificados) :
        nombre_to_slug(certificados[j].nombre) # base =>
            \A k \in 1..(Len(certificados) + 1) :
                certificados[j].slug # Candidato(base, k)

\* C3 amended: requests for one name that run one after another get base,
\* base-2, base-3, ... in order provided no record created for a name with a
\* different base holds one of these candidates.
C3_SufijosEnOrden ==
    \A n \in Nombres :
        SinOcupanteAjeno(nombre_to_slug(n)) =>
            \A k \in 1..Len(FilasDeBase(nombre_to_slug(n))) :
                FilasDeBase(nombre_to_slug(n))[k].slug = Candidato(nombre_to_slug(n), k)

\* C3 witness: three records for "A" hold a, a-2 and a-3.
C3_Witness ==
    /\ Len(FilasDeBase(<<"a">>)) = 3
    /\ SinOcupanteAjeno(<<"a">>)
    /\ FilasDeBase(<<"a">>)[3].slug = <<"a", "-", "3">>

\* C4 as stated: a save the store rejects as a duplicate sends
\* generar_certificado back to the uniqueness resolver for another attempt.
C4_Original ==
    [][\A p \in Procs :
          (pc[p] = "guardar" /\ pc'[p] # "guardar"
             /\ FilasConSlug(loc[p].slug) # << >>) => pc'[p] = "resolver"]_vars

\* C5: every row has an asset URL and an asset id that are not None and are
\* those of an asset a completed upload put in the storage.
C5_RegistroConAsset ==
    \A k \in 1..Len(certificados) :
        /\ certificados[k].cloudinary_url # None
        /\ certificados[k].cloudinary_public_id # None
        /\ \E a \in nube :
              /\ a.public_id = certificados[k].cloudinary_public_id
              /\ a.url = certificados[k].cloudinary_url

\* C5 witness: a batch has saved a row after its upload, and the upload of
\* another of its items has failed.
C5_Witness ==
    \E p \in Procs :
        /\ loc[p].agregados >= 1
        /\ \E k \in 1..Len(loc[p].resultados) :
              /\ "error" \in DOMAIN loc[p].resultados[k]
              /\ loc[p].resultados[k].error = "Error al subir certificado a Cloudinary"

\* The result generar_certificado returned in this step of handler p, as a
\* tuple of length at most one
ResultadoNuevo(p) ==
    IF Len(loc'[p].resultados) = Len(loc[p].resultados) + 1
       /\ "nombre" \in DOMAIN loc'[p].resultados[Len(loc'[p].resultados)]
    THEN <<loc'[p].resultados[Len(loc'[p].resultados)]>>
    ELSE << >>

\* C6: with one request at a time, no step of a generar_certificado call
\* before its save changes the table, and a call that ends before its save
\* (the template read or the upload failed) returns success False: the table
\* is then what it was when the call started.
C6_FalloSinRegistro ==
    [][\A p \in Procs :
          /\ pc[p] \in {"resolver", "subir"} => certificados' = certificados
          /\ (ResultadoNuevo(p) # << >> /\ pc[p] # "guardar") =>
                /\ ResultadoNuevo(p)[1].success = FALSE
                /\ certificados' = certificados]_vars

\* C6 witness: a batch has persisted its first item, the upload of its
\* second item has failed, and the table holds the first item's row only.
C6_Witness ==
    \E p \in Procs :
        /\ Len(certificados) = 1
        /\ Len(loc[p].resultados) = 2
        /\ loc[p].resultados[1].success
        /\ ~loc[p].resultados[2].success
        /\ loc[p].resultados[2].error = "Error al subir certificado a Cloudinary"

\* C7 as stated: between items and when it returns, a batch's exitosos is
\* the number of rows it added and its errores the number of items that
\* added none.
C7_Original ==
    \A p \in Procs :
        pc[p] = "batch_loop" =>
            /\ loc[p].exitosos = loc[p].agregados
            /\ loc[p].errores = loc[p].i - loc[p].agregados

\* C8 as stated: no step lowers the visto of a row.
C8_Original ==
    [][\A k \in 1..Len(certificados) :
          certificados'[k].visto >= certificados[k].visto]_vars

\* What marcar_como_visto calls that run one after another leave in the rows
VistoCuentaLlamadas ==
    \A k \in 1..Len(certificados) :
        certificados[k].slug \in SlugsVista =>
            certificados[k].visto = vistasOk[certificados[k].slug]

C10_Original ==
    (\A p \in Procs : pc[p] # "visto_commit") => VistoCuentaLlamadas

\* C11 as stated: a request to ver_certificado whose slug has no record is
\* answered 404, never 5xx.
C11_Original ==
    (ret # None /\ ret[2] = "ver_certificado"
        /\ FilasConSlug(ret[3].slug) = << >>) => ret[4].status = 404

\* C12 as stated: the request of ver_certificado for a slug that has a
\* record raises that record's visto by exactly 1 (the step that commits
\* the request's marcar_como_visto is the one that changes the table).
C12_Original ==
    [][\A p \in Procs :
        (pc[p] = "ver_commit" /\ pc'[p] = "ver_servir") =>
            \A k \in 1..Len(certificados) :
                certificados[k].slug = loc[p].slug =>
                    certificados'[k].visto = certificados[k].visto + 1]_vars

\* The columns of a row that no operation writes after the INSERT
Inmutables(c) ==
    <<c.id, c.slug, c.nombre, c.email, c.cloudinary_url, c.cloudinary_public_id,
      c.fecha_generacion>>

\* The views that only read the table
SoloLectura ==
    {"preview_certificado", "descargar_certificado", "descargar_certificado_pdf",
     "listar_certificados", "buscar_por_email", "buscar_por_nombre",
     "admin_dashboard", "admin_exportar", "admin_exportar_excel"}

\* C13: no step removes a row or changes the slug, nombre, email,
\* cloudinary_url, cloudinary_public_id or fecha_generacion of a row; a step
\* that changes visto or ultima_visita of a row is the commit of a
\* marcar_como_visto call for that row's slug; the steps of the preview,
\* download, PDF-download, list, search, dashboard and export views leave
\* the table as it is.
C13_SoloVistoCambia ==
    [][/\ Len(certificados') >= Len(certificados)
       /\ \A k \in 1..Len(certificados) :
            /\ Inmutables(certificados'[k]) = Inmutables(certificados[k])
            /\ certificados'[k] # certificados[k] =>
                 /\ ret' # None
                 /\ ret'[2] = "marcar_como_visto"
                 /\ ret'[3] = certificados[k].slug
                 /\ ret'[4] = TRUE
       /\ (ret' # None /\ ret'[2] \in SoloLectura) =>
             certificados' = certificados]_vars

\* C13 witness: a table of two rows, the first generated before the second,
\* in which only the first has been viewed: its visto and ultima_visita are
\* set and its other columns are those of the initial row.
C13_Witness ==
    /\ Len(certificados) = 2
    /\ certificados[1].visto >= 1
    /\ certificados[1].ultima_visita # None
    /\ Inmutables(certificados[1]) = Inmutables(FilaInicial)
    /\ certificados[2].visto = 0
    /\ ret # None
    /\ ret[2] \in SoloLectura

\* C14 as stated: a login POST whose password equals ADMIN_PASSWORD takes
\* the session to logged_in.
C14_Original ==
    (ret # None /\ ret[2] = "admin_login" /\ ret[3].method = "POST"
        /\ ret[3].password = ADMIN_PASSWORD) => session = "logged_in"

\* The admin views behind the session flag
VistasAdmin ==
    {"admin_dashboard", "admin_generar", "admin_exportar", "admin_exportar_excel"}

\* C15 as stated: while the session is logged_out, the dashboard, generate
\* and export views answer with a redirect to the login page or with 401.
C15_Original ==
    (ret # None /\ ret[2] \in VistasAdmin /\ session = "logged_out") =>
        \/ ret[4] = Redirect("/admin/login")
        \/ ret[4].status = 401

\* C16 as stated: after the admin has posted ADMIN_PASSWORD to the login
\* view (and not logged out since), an export answers with one row for
\* every row of the table.
C16_Original ==
    (ret # None /\ ret[2] \in {"admin_exportar", "admin_exportar_excel"}
        /\ claveEnviada) =>
            /\ ret[4].status = 200
            /\ Len(ret[4].filas) = Len(certificados)


\* C19 as stated: the 500 bodies of the list and search views, and the
\* failed items of a generation batch, carry a message the application
\* wrote, never the text of the exception raised underneath.
C19_Original ==
    /\ (ret # None
          /\ ret[2] \in {"listar_certificados", "buscar_por_email", "buscar_por_nombre"}
          /\ ret[4].status = 500) => ret[4].error \notin MensajesInternos
    /\ (ret # None /\ ret[2] = "generar_batch") =>
          \A k \in 1..Len(ret[4].resultados) :
              ~ret[4].resultados[k].success =>
                  ret[4].resultados[k].error \notin MensajesInternos

\* The bodies GenerarCertificadosRequest does not accept
CuerposInvalidos == Cuerpos \ {"valido"}

\* C20 as stated: a generation request whose body fails validation is
\* answered with a 4xx status.
C20_Original ==
    (ret # None /\ ret[2] \in {"generar_certificados", "admin_generar"}
        /\ ret[3].cuerpo \in CuerposInvalidos) =>
            (ret[4].status >= 400 /\ ret[4].status < 500)

\* C17: whatever the name, nombre_to_slug returns a string of characters of
\* [a-z0-9-] that neither starts nor ends with a hyphen and has no two
\* hyphens in a row.
C17_SlugBienFormado ==
    (ret # None /\ ret[2] = "nombre_to_slug") =>
        /\ \A i \in 1..Len(ret[4]) : ret[4][i] \in AsciiLower \cup AsciiDigit \cup {"-"}
        /\ ret[4] # << >> => (ret[4][1] # "-" /\ ret[4][Len(ret[4])] # "-")
        /\ \A i \in 1..(Len(ret[4]) - 1) : ~(ret[4][i] = "-" /\ ret[4][i + 1] = "-")

\* C17 witness: the name "A", U+2103, "b" (an upper-case letter, a symbol
\* whose NFKD form holds an upper-case C, a letter) has been turned into a-b.
C17_Witness ==
    /\ ret # None
    /\ ret[2] = "nombre_to_slug"
    /\ ret[3] = <<"A", "DEG_C", "b">>
    /\ ret[4] = <<"a", "-", "b">>

\* C18 as stated: nombre_to_slug("O'Brien") is obrien.
C18_Original ==
    (ret # None /\ ret[2] = "nombre_to_slug" /\ ret[3] = OBrien) =>
        ret[4] = <<"o", "b", "r", "i", "e", "n">>

\* The view functions of app.py
Vistas ==
    {"index", "health", "generar_certificados", "ver_certificado",
     "preview_certificado", "descargar_certificado", "descargar_certificado_pdf",
     "listar_certificados", "buscar_por_email", "buscar_por_nombre",
     "admin_redirect", "admin_login", "admin_dashboard", "admin_generar",
     "admin_exportar", "admin_exportar_excel", "admin_logout"}

\* C21 as stated: the response of every request is one the view function
\* returned; none is the answer Flask's errorhandler(500) gives for an
\* exception that left the view.
C21_Original ==
    (ret # None /\ ret[2] \in Vistas) => ret[4] # internal_error

\* The rows of a sequence of pages, in the order they were read
RECURSIVE Aplanar(_)
Aplanar(paginas) ==
    IF paginas = << >> THEN << >> ELSE Head(paginas) \o Aplanar(Tail(paginas))

\* C22 as stated: the pages at offsets 0, limite, 2*limite, ... read with
\* no generation in between hold every row of the table exactly once.
C22_Original ==
    \A p \in Procs :
        pc[p] = "paginado" =>
            /\ Len(Aplanar(loc[p].paginas)) = Len(certificados)
            /\ \A k \in 1..Len(certificados) :
                  \E j \in 1..Len(Aplanar(loc[p].paginas)) :
                      Aplanar(loc[p].paginas)[j].id = certificados[k].id

\* C23: a call of guardar_certificado with a slug that already has a row
\* returns False and leaves the table as it was: same rows, same count.
C23_DuplicadoRechazado ==
    [][\A p \in Procs :
          (pc[p] = "guardar" /\ pc'[p] # "guardar"
             /\ FilasConSlug(loc[p].slug) # << >>) =>
                /\ ~GuardarDe(loc[p], reloj').ok
                /\ loc'[p].agregados = loc[p].agregados
                /\ certificados' = certificados]_vars

\* C23 witness: a batch of one item has returned from a save that added no
\* row, and the table holds the row of "A" that was saved first, its visto
\* and ultima_visita untouched.
C23_Witness ==
    \E p \in Procs :
        /\ pc[p] = "batch_loop"
        /\ loc[p].i = 1
        /\ loc[p].exitosos = 1
        /\ loc[p].agregados = 0
        /\ loc[p].resultados[1].slug = <<"a">>
        /\ Len(FilasConSlug(<<"a">>)) = 1
        /\ FilasConSlug(<<"a">>)[1].visto = 0

\* The views wrapped by require_admin_ip
Decoradas ==
    {"generar_certificados", "admin_redirect", "admin_login", "admin_dashboard",
     "admin_generar", "admin_exportar", "admin_exportar_excel", "admin_logout"}

\* C24 as stated: when require_admin_ip does not let the request through to
\* the view (the client IP is not in a non-empty ADMIN_ALLOWED_IPS, or the
\* list is empty and DEBUG is false, or any other case), the response is 403.
C24_Original ==
    (ret # None /\ ret[2] \in Decoradas /\ require_admin_ip(ret[3].ip) # "ok") =>
        ret[4].status = 403

\* The participant lacks nombre or email (missing, None or empty)
Incompleto(part) == Get(part, "nombre") = None \/ Get(part, "email") = None

\* The result generar_batch appends for an incomplete participant
ResultadoIncompleto(part) ==
    [error |-> "Participante sin nombre o email", participante |-> part,
     success |-> FALSE]

\* Between two items: one result per item read, in the order read
UnResultadoPorItem(l) ==
    /\ Len(l.resultados) = Len(l.entrada)
    /\ l.i = Len(l.entrada)
    /\ l.exitosos + l.errores = Len(l.entrada)
    /\ \A k \in 1..Len(l.entrada) :
          IF Incompleto(l.entrada[k])
          THEN l.resultados[k] = ResultadoIncompleto(l.entrada[k])
          ELSE /\ l.resultados[k].nombre = l.entrada[k].nombre
               /\ l.resultados[k].email = l.entrada[k].email

\* C25: whenever generar_batch is between two items, and so when it
\* returns, it holds exactly one result per item read, in input order, and
\* exitosos + errores = total = the number of items; an item without nombre
\* or email is an error whose step uploads and saves nothing and leaves the
\* loop ready for the next item; and every call that has started returns.
C25_UnResultadoPorItem ==
    /\ [](\A p \in Procs : pc[p] = "batch_loop" => UnResultadoPorItem(loc[p]))
    /\ [](ret # None /\ ret[2] = "generar_batch" =>
            /\ ret[4].total = Len(ret[4].resultados)
            /\ ret[4].total = ret[4].exitosos + ret[4].errores)
    /\ [][\A p \in Procs :
            (Len(loc'[p].entrada) = Len(loc[p].entrada) + 1
               /\ Incompleto(loc'[p].entrada[Len(loc'[p].entrada)])) =>
                  /\ certificados' = certificados
                  /\ nube' = nube
                  /\ pc'[p] = "batch_loop"
                  /\ loc'[p].errores = loc[p].errores + 1
                  /\ loc'[p].exitosos = loc[p].exitosos]_vars
    /\ \A p \in Procs : (pc[p] # "idle") ~> (pc[p] = "idle")

\* C25 witness: a batch of three items has returned; its first item had no
\* nombre, its second failed and its third was generated.
C25_Witness ==
    /\ ret # None
    /\ ret[2] = "generar_batch"
    /\ ret[4].total = 3
    /\ ret[4].exitosos = 1
    /\ ret[4].errores = 2
    /\ "participante" \in DOMAIN ret[4].resultados[1]
    /\ ~ret[4].resultados[2].success
    /\ ret[4].resultados[3].success

\* The table holds a row with the slug, nombre and email of the result
TieneRegistro(resultado) ==
    \E k \in 1..Len(certificados) :
        /\ certificados[k].slug = resultado.slug
        /\ certificados[k].nombre = resultado.nombre
        /\ certificados[k].email = resultado.email

\* C26 as stated: every result with success True that a batch holds has a
\* row with its slug, nombre and email, also after a rejected save and when
\* requests interleave.
C26_Original ==
    \A p \in Procs :
        \A k \in 1..Len(loc[p].resultados) :
            loc[p].resultados[k].success => TieneRegistro(loc[p].resultados[k])

\* The storage holds, under the row's public id, an asset rendered from the
\* row's nombre
AssetDelRegistro(c) ==
    \E a \in nube : a.public_id = c.cloudinary_public_id /\ a.nombre = c.nombre

\* C27 as stated: the asset stored under the public id of every row was
\* rendered from that row's nombre.
C27_Original ==
    \A k \in 1..Len(certificados) : AssetDelRegistro(certificados[k])

\* C28 as stated: every slug of a row is accepted by validate_slug.
C28_Original ==
    \A k \in 1..Len(certificados) : validate_slug(certificados[k].slug)

\* C29: generar_slug_unico's loop ends, and on a table of n rows it has made
\* at most n + 1 lookups when it returns: while it is still looping every
\* lookup it has made found a row, so it has made at most n.
C29_LookupsAcotados ==
    /\ [](\A p \in Procs :
            /\ pc[p] = "resolver" => loc[p].consultas <= Len(certificados)
            /\ pc[p] = "subir" => loc[p].consultas <= Len(certificados) + 1)
    /\ \A p \in Procs : (pc[p] = "resolver") ~> (pc[p] = "subir")

\* C29 witness: on a table of two rows the loop returned after three
\* lookups (the slug and the candidate with 2 were both taken).
C29_Witness ==
    \E p \in Procs :
        /\ pc[p] = "subir"
        /\ Len(certificados) = 2
        /\ loc[p].consultas = 3


====
